---- MODULE Spec2Model ----
(***************************************************************************)
(* A model of writium: the Request value object (path normalisation,       *)
(* segment matching, extras), the Namespace router, the Error value and    *)
(* its conversion to a transport response, and the Writium root            *)
(* dispatcher.                                                             *)
(*                                                                         *)
(* Text is modelled as a sequence of one-character strings, a path segment *)
(* is such a sequence, and a body is a sequence of bytes (numbers).        *)
(***************************************************************************)
EXTENDS Integers, Sequences, FiniteSets, TLC

VARIABLES
    windows,    \* cfg!(windows) of the build
    pc,         \* position of the object under test (SpecUri, SpecReq, SpecErr)
    uri,        \* the Uri handed to set_uri
    req,        \* the Request under test
    tree,       \* the Namespace under test: its apis
    binds,      \* history: the handlers in the order bind/with_api was called
    last,       \* history: the last operation on req, its arguments and result
    err,        \* the Error under test
    hres,       \* the HyperResponse the Error was converted into
    heap,       \* Arc<Namespace> allocations of the dispatcher
    ns,         \* Writium.ns: the address of the root Namespace
    tx,         \* the transactions of the dispatcher
    resp        \* the Response under test

vars == <<windows, pc, uri, req, tree, binds, last, err, hres, heap, ns, tx, resp>>

---------------------------------------------------------------------------
(* Bounds *)

\* longest path drawn exhaustively over PathAlphabet
MaxPathLen == 5

\* most handlers bound to a Namespace
MaxApis == 2

\* most path segments of a prepared Request
MaxSegs == 2

\* longest name tried by match_segs directly
MaxNameLen == 2
\* transactions of the dispatcher, and chunks of one body
MaxTx == 2
MaxChunks == 2

---------------------------------------------------------------------------
(* Text *)

Slash == "/"
Backslash == "\\"
DotSeg == <<".">>
DotDotSeg == <<".", ".">>

PathAlphabet == {"/", ".", "a", "b", "\\"}

StringsUpTo(alphabet, n) == UNION {[1..k -> alphabet] : k \in 0..n}

\* &s[k..]: the text from its k-th character (0-based) on
StrFrom(s, k) == SubSeq(s, k + 1, Len(s))

\* str::replace("\\", "/")
ReplaceBackslash(s) == [i \in 1..Len(s) |-> IF s[i] = Backslash THEN Slash ELSE s[i]]

\* str::split('/'): the pieces between the slashes, one more than there are
\* slashes (the split of the empty text is one empty piece)
RECURSIVE StrSplitSlash(_)
StrSplitSlash(s) ==
    IF \A i \in 1..Len(s) : s[i] # Slash
    THEN <<s>>
    ELSE LET i == CHOOSE k \in 1..Len(s) :
                      s[k] = Slash /\ \A j \in 1..(k - 1) : s[j] # Slash
         IN  <<SubSeq(s, 1, i - 1)>> \o StrSplitSlash(SubSeq(s, i + 1, Len(s)))

\* the printable ASCII characters, from the space (32) to the tilde (126);
\* "grave" stands for the grave accent (96)
AsciiChars ==
    <<" ", "!", "\"", "#", "$", "%", "&", "'", "(", ")", "*", "+", ",", "-",
      ".", "/", "0", "1", "2", "3", "4", "5", "6", "7", "8", "9", ":", ";",
      "<", "=", ">", "?", "@", "A", "B", "C", "D", "E", "F", "G", "H", "I",
      "J", "K", "L", "M", "N", "O", "P", "Q", "R", "S", "T", "U", "V", "W",
      "X", "Y", "Z", "[", "\\", "]", "^", "_", "grave", "a", "b", "c", "d", "e",
      "f", "g", "h", "i", "j", "k", "l", "m", "n", "o", "p", "q", "r", "s",
      "t", "u", "v", "w", "x", "y", "z", "{", "|", "}", "~">>

\* a character outside ASCII: U+00E9, two bytes in UTF-8
EAcute == "e-acute"

\* the UTF-8 encoding of one character
Utf8Char(c) ==
    IF c = EAcute THEN <<195, 169>>
    ELSE <<31 + (CHOOSE i \in 1..Len(AsciiChars) : AsciiChars[i] = c)>>

\* String::into_bytes
RECURSIVE IntoBytes(_)
IntoBytes(s) == IF s = <<>> THEN <<>> ELSE Utf8Char(Head(s)) \o IntoBytes(Tail(s))

\* Vec::pop: removes the last element, a no-op on the empty vector
VecPop(v) == IF Len(v) = 0 THEN v ELSE SubSeq(v, 1, Len(v) - 1)

---------------------------------------------------------------------------
(* Headers, Request *)

NoHeaders == <<>>
NoExtra == <<>>

\* Headers::set: one value per header name, the last one set
HeadersSet(h, name, val) ==
    [n \in DOMAIN h \cup {name} |-> IF n = name THEN val ELSE h[n]]

\* Request::new
RequestNew(method) ==
    [method |-> method, query |-> <<>>, path_segs |-> <<>>,
     headers |-> NoHeaders, body |-> <<>>, extra |-> NoExtra]

\* the loop of collect_path_segs that protects against path traversal
RECURSIVE TraversalWalk(_, _)
TraversalWalk(raw_rv, rv) ==
    IF raw_rv = <<>> THEN rv
    ELSE LET seg == Head(raw_rv)
         IN  TraversalWalk(Tail(raw_rv),
                 IF seg = DotDotSeg THEN VecPop(rv)
                 ELSE IF seg = DotSeg THEN rv
                 ELSE Append(rv, seg))

\* a walk that pushes ".." like any other segment
collect_path_segs_keeps_dotdot(win, path) ==
    LET raw_rv == IF Len(path) # 0 /\ path[1] = Slash
                  THEN StrSplitSlash(IF win THEN ReplaceBackslash(StrFrom(path, 1))
                                     ELSE StrFrom(path, 1))
                  ELSE <<>>
    IN  SelectSeq(raw_rv, LAMBDA seg : seg # DotSeg)

collect_path_segs(win, path) ==
    LET raw_rv == IF Len(path) # 0 /\ path[1] = Slash
                  THEN StrSplitSlash(IF win THEN ReplaceBackslash(StrFrom(path, 1))
                                     ELSE StrFrom(path, 1))
                  ELSE <<>>
    IN  TraversalWalk(raw_rv, <<>>)

\* Option<&str>::unwrap_or_default
UnwrapOrDefault(opt) == IF opt.some THEN opt.v ELSE <<>>

\* Request::set_uri
set_uri(win, r, u) ==
    [r EXCEPT !.path_segs = collect_path_segs(win, u.path),
              !.query = UnwrapOrDefault(u.query)]

---------------------------------------------------------------------------
(* Error, Response, ApiResult *)

StatusOk == 200
StatusBadRequest == 400
StatusUnauthorized == 401
StatusForbidden == 403
StatusNotFound == 404
StatusInternalServerError == 500

NoError == [status |-> 0, headers |-> NoHeaders, description |-> <<>>, cause |-> <<>>]
NoHyperResponse == [status |-> 0, headers |-> NoHeaders, body |-> <<>>]

\* Error::new
ErrorNew(status, description) ==
    [status |-> status, headers |-> NoHeaders, description |-> description,
     cause |-> <<>>]

ErrorInternal(description) == ErrorNew(StatusInternalServerError, description)
ErrorUnauthorized(description) == ErrorNew(StatusUnauthorized, description)
ErrorBadRequest(description) == ErrorNew(StatusBadRequest, description)
ErrorForbidden(description) == ErrorNew(StatusForbidden, description)
ErrorNotFound(description) == ErrorNew(StatusNotFound, description)

\* Error::with_cause / set_cause: the display text of the cause and of its own
\* causes, nearest first
ErrorWithCause(e, chain) == [e EXCEPT !.cause = chain]
\* Error::with_header / set_header
ErrorWithHeader(e, name, val) == [e EXCEPT !.headers = HeadersSet(@, name, val)]
\* Error::with_headers / set_headers
ErrorWithHeaders(e, hs) == [e EXCEPT !.headers = hs]

\* Response::new
ResponseNew == [status |-> StatusOk, headers |-> NoHeaders, body |-> <<>>]
NoResponse == [status |-> 0, headers |-> NoHeaders, body |-> <<>>]

\* ApiResult = Result<Response, Error>
Ok(res) == [ok |-> TRUE, res |-> res, err |-> NoError]
Err(e) == [ok |-> FALSE, res |-> NoResponse, err |-> e]

ApiNotFoundDescription ==
    <<"U", "n", "a", "b", "l", "e", " ", "t", "o", " ", "f", "i", "n", "d", " ",
      "t", "h", "e", " ", "r", "e", "q", "u", "e", "s", "t", "e", "d", " ",
      "A", "P", "I", ".">>

gen_api_not_found == Err(ErrorNotFound(ApiNotFoundDescription))

---------------------------------------------------------------------------
(* Error into HyperResponse *)

ContentType == "Content-Type"
ContentLength == "Content-Length"

\* a header value: a text, or for Content-Length a number
HeaderText(text) == [text |-> text, num |-> 0]
HeaderNum(n) == [text |-> "", num |-> n]

\* "application/json; charset=UTF-8".parse().unwrap(): a valid media type
JsonUtf8 == HeaderText("application/json; charset=UTF-8")

\* format!(r#"{{"msg":"{}"}}"#, description)
FormatMsg(description) ==
    <<"{", "\"", "m", "s", "g", "\"", ":", "\"">> \o description \o <<"\"", "}">>

\* HyperResponse::new
HyperResponseNew == [status |-> StatusOk, headers |-> NoHeaders, body |-> <<>>]
\* HyperResponse::with_status, with_headers, with_header, with_body
HyperWithStatus(h, status) == [h EXCEPT !.status = status]
HyperWithHeaders(h, headers) == [h EXCEPT !.headers = headers]
HyperWithHeader(h, name, val) == [h EXCEPT !.headers = HeadersSet(@, name, val)]
HyperWithBody(h, body) == [h EXCEPT !.body = body]

\* a conversion that sets the error's own headers last
ErrorIntoHyperHeadersLast(e) ==
    LET body == IntoBytes(FormatMsg(e.description))
        h1 == HyperWithStatus(HyperResponseNew, e.status)
        h2 == HyperWithHeader(h1, ContentType, JsonUtf8)
        h3 == HyperWithHeader(h2, ContentLength, HeaderNum(Len(body)))
        h4 == [h3 EXCEPT !.headers =
                  [n \in DOMAIN @ \cup DOMAIN e.headers |->
                      IF n \in DOMAIN e.headers THEN e.headers[n] ELSE @[n]]]
    IN  HyperWithBody(h4, body)

\* impl Into<HyperResponse> for Error
ErrorIntoHyper(e) ==
    LET body == IntoBytes(FormatMsg(e.description))
        h1 == HyperWithStatus(HyperResponseNew, e.status)
        h2 == HyperWithHeaders(h1, e.headers)
        h3 == HyperWithHeader(h2, ContentType, JsonUtf8)
        h4 == HyperWithHeader(h3, ContentLength, HeaderNum(Len(body)))
    IN  HyperWithBody(h4, body)

\* impl From<Response> for HyperResponse
ResponseIntoHyper(res) ==
    HyperWithBody(
        HyperWithHeaders(HyperWithStatus(HyperResponseNew, res.status), res.headers),
        res.body)

MethodNotAllowedDescription ==
    <<"M", "e", "t", "h", "o", "d", " ", "i", "s", " ", "n", "o", "t", " ",
      "a", "l", "l", "o", "w", "e", "d", ".">>

\* a method_not_allowed of the status its name suggests
ErrorMethodNotAllowed405 == ErrorNew(405, MethodNotAllowedDescription)

\* Error::method_not_allowed
ErrorMethodNotAllowed == ErrorNew(StatusNotFound, MethodNotAllowedDescription)

---------------------------------------------------------------------------
(* Request: segment matching and extras *)

Min(a, b) == IF a < b THEN a ELSE b

\* iter().zip(iter()).all(==): the pairs up to the shorter length are equal
ZipAllEqual(a, b) == \A i \in 1..Min(Len(a), Len(b)) : a[i] = b[i]

\* Vec::drain(..n): panics when n exceeds the length
DrainPanics(v, n) == n > Len(v)
DrainTo(v, n) == SubSeq(v, n + 1, Len(v))

\* a match_segs without the length check
match_segs_unguarded(r, segs) ==
    IF ZipAllEqual(r.path_segs, segs)
    THEN IF DrainPanics(r.path_segs, Len(segs))
         THEN [ret |-> FALSE, req |-> r, panic |-> TRUE]
         ELSE [ret |-> TRUE,
               req |-> [r EXCEPT !.path_segs = DrainTo(@, Len(segs))],
               panic |-> FALSE]
    ELSE [ret |-> FALSE, req |-> r, panic |-> FALSE]

\* a match_segs that removes the matching leading segments one at a time and
\* keeps them removed when a later one differs
RECURSIVE EatWhileEqual(_, _)
EatWhileEqual(v, segs) ==
    IF segs = <<>> THEN [ret |-> TRUE, rest |-> v]
    ELSE IF v # <<>> /\ Head(v) = Head(segs) THEN EatWhileEqual(Tail(v), Tail(segs))
    ELSE [ret |-> FALSE, rest |-> v]

match_segs_eager(r, segs) ==
    LET e == EatWhileEqual(r.path_segs, segs)
    IN  [ret |-> e.ret, req |-> [r EXCEPT !.path_segs = e.rest], panic |-> FALSE]

\* a match_segs that drains with an inclusive range
match_segs_drain_inclusive(r, segs) ==
    IF Len(r.path_segs) < Len(segs)
    THEN [ret |-> FALSE, req |-> r, panic |-> FALSE]
    ELSE IF ZipAllEqual(r.path_segs, segs)
    THEN IF DrainPanics(r.path_segs, Len(segs) + 1)
         THEN [ret |-> FALSE, req |-> r, panic |-> TRUE]
         ELSE [ret |-> TRUE,
               req |-> [r EXCEPT !.path_segs = DrainTo(@, Len(segs) + 1)],
               panic |-> FALSE]
    ELSE [ret |-> FALSE, req |-> r, panic |-> FALSE]

\* a match_segs that wants more segments than the name has
match_segs_off_by_one(r, segs) ==
    IF Len(r.path_segs) <= Len(segs)
    THEN [ret |-> FALSE, req |-> r, panic |-> FALSE]
    ELSE IF ZipAllEqual(r.path_segs, segs)
    THEN [ret |-> TRUE,
          req |-> [r EXCEPT !.path_segs = DrainTo(@, Len(segs))],
          panic |-> FALSE]
    ELSE [ret |-> FALSE, req |-> r, panic |-> FALSE]

\* Request::match_segs
match_segs(r, segs) ==
    IF Len(r.path_segs) < Len(segs)
    THEN [ret |-> FALSE, req |-> r, panic |-> FALSE]
    ELSE IF ZipAllEqual(r.path_segs, segs)
    THEN IF DrainPanics(r.path_segs, Len(segs))
         THEN [ret |-> FALSE, req |-> r, panic |-> TRUE]
         ELSE [ret |-> TRUE,
               req |-> [r EXCEPT !.path_segs = DrainTo(@, Len(segs))],
               panic |-> FALSE]
    ELSE [ret |-> FALSE, req |-> r, panic |-> FALSE]

\* Request::set_path_segs
set_path_segs(r, path_segs) == [r EXCEPT !.path_segs = path_segs]

\* a set_extra that keeps the value already stored under the key
set_extra_keep_first(r, key, val) ==
    IF key \in DOMAIN r.extra THEN r
    ELSE [r EXCEPT !.extra = [k \in DOMAIN @ \cup {key} |->
                                 IF k = key THEN val ELSE @[k]]]

\* Request::set_extra: BTreeMap::insert of the boxed value, which carries its type
set_extra(r, key, val) ==
    [r EXCEPT !.extra = [k \in DOMAIN @ \cup {key} |-> IF k = key THEN val ELSE @[k]]]

None == [some |-> FALSE, v |-> ""]
Some(v) == [some |-> TRUE, v |-> v]

\* Request::extra::<T>: the value under the key when its type is T
extra(r, key, type) ==
    IF key \in DOMAIN r.extra /\ r.extra[key].type = type
    THEN Some(r.extra[key].v)
    ELSE None

---------------------------------------------------------------------------
(* Api, Namespace *)

NoStash == [key |-> "", val |-> [type |-> "", v |-> ""]]

\* an end-point: an Api whose route answers with a fixed result
Leaf(name, ret) ==
    [kind |-> "leaf", name |-> name, apis |-> <<>>, ret |-> ret, stash |-> NoStash]

\* Namespace::new(name) followed by with_api for each of apis
NamespaceOf(name, apis) ==
    [kind |-> "ns", name |-> name, apis |-> apis, ret |-> Ok(NoResponse),
     stash |-> NoStash]

\* an Api of a low hierarchy that puts an extra into the request and hands
\* it to its sub-APIs
StashApi(name, key, val, apis) ==
    [kind |-> "stash", name |-> name, apis |-> apis, ret |-> Ok(NoResponse),
     stash |-> [key |-> key, val |-> val]]

\* a push that puts the new api in front
NsBindFront(apis, api) == <<api>> \o apis

\* Namespace::bind / Namespace::with_api: Vec::push
NsBind(apis, api) == Append(apis, api)

\* history: what an Api sees as its route is entered, and what it returns
Visit(at, api, r, ret) ==
    [at |-> at, name |-> api.name, kind |-> api.kind, stash |-> api.stash,
     segs |-> r.path_segs, extra |-> r.extra, ret |-> ret]

\* a Namespace that answers "not found" for any error of a sub-API
NsReturnMasks(result) ==
    IF result.ret.ok THEN result ELSE [result EXCEPT !.ret = gen_api_not_found]

\* `return api.route(req)`: the sub-API's result is the Namespace's
NsReturn(result) == result

\* history: the result of an api's sub-apis, with the api's own visit first
Entered(at, api, r, d) == [d EXCEPT !.trace = <<Visit(at, api, r, d.ret)>> \o @]

RECURSIVE ApiRoute(_, _, _), NsRouteFrom(_, _, _, _)

\* the result of a sub-API unless it found nothing, and then the result of
\* the APIs after it
OrElse(d, next) ==
    IF d.panic \/ d.ret # gen_api_not_found THEN d
    ELSE [next EXCEPT !.trace = d.trace \o @]

\* a loop that goes on to the next API, with the segments as they were, when
\* the API matched finds nothing
NsRouteFromBacktracks(apis, i, r, at) ==
    IF i > Len(apis)
    THEN [ret |-> gen_api_not_found, req |-> r, trace |-> <<>>, panic |-> FALSE]
    ELSE LET m == match_segs(r, apis[i].name)
         IN  IF m.panic
             THEN [ret |-> Ok(NoResponse), req |-> m.req, trace |-> <<>>,
                   panic |-> TRUE]
             ELSE IF m.ret
             THEN OrElse(ApiRoute(apis[i], m.req, Append(at, i)),
                         NsRouteFrom(apis, i + 1, r, at))
             ELSE NsRouteFrom(apis, i + 1, m.req, at)

\* Api::route of the api at position `at` of the tree, and the loop of
\* Namespace::route over apis from its i-th on
NsRouteFrom(apis, i, r, at) ==
    IF i > Len(apis)
    THEN [ret |-> gen_api_not_found, req |-> r, trace |-> <<>>, panic |-> FALSE]
    ELSE LET m == match_segs(r, apis[i].name)
         IN  IF m.panic
             THEN [ret |-> Ok(NoResponse), req |-> m.req, trace |-> <<>>,
                   panic |-> TRUE]
             ELSE IF m.ret
             THEN NsReturn(ApiRoute(apis[i], m.req, Append(at, i)))
             ELSE NsRouteFrom(apis, i + 1, m.req, at)

ApiRoute(api, r, at) ==
    LET down(r1) == Entered(at, api, r, NsRouteFrom(api.apis, 1, r1, at))
    IN  CASE api.kind = "leaf" ->
                 [ret |-> api.ret, req |-> r,
                  trace |-> <<Visit(at, api, r, api.ret)>>, panic |-> FALSE]
          [] api.kind = "ns" -> down(r)
          [] api.kind = "stash" -> down(set_extra(r, api.stash.key, api.stash.val))

\* Namespace::route of the root Namespace (its name is not matched)
NsRoute(apis, r) == ApiRoute(NamespaceOf(<<>>, apis), r, <<>>)

---------------------------------------------------------------------------
(* SpecUri: set_uri on every short path, in both builds *)

NoQuery == [some |-> FALSE, v |-> <<>>]
SomeQuery == [some |-> TRUE, v |-> <<"k", "=", "v">>]

PathABdotdot == <<"/", "a", "/", ".", ".", "/", "b">>
PathABdot == <<"/", "a", "/", ".", "/", "b">>
PathDotDotA == <<"/", ".", ".", "/", "a">>
PathNoLead == <<"a", "/", "b">>
PathBackslash == <<"/", "a", "\\", ".", ".", "\\", "b">>

UriPaths ==
    StringsUpTo(PathAlphabet, MaxPathLen)
        \cup {PathABdotdot, PathABdot, PathDotDotA, PathNoLead, PathBackslash}

NoLast == [op |-> "none"]

InitUri ==
    /\ windows \in BOOLEAN
    /\ pc = "new"
    /\ uri \in [path : UriPaths, query : {NoQuery, SomeQuery}]
    /\ req = RequestNew("GET")
    /\ tree = <<>> /\ binds = <<>> /\ last = NoLast
    /\ err = NoError /\ hres = NoHyperResponse /\ resp = NoResponse
    /\ heap = <<>> /\ ns = 0 /\ tx = <<>>

SetUri ==
    /\ pc = "new"
    /\ pc' = "set"
    /\ req' = set_uri(windows, req, uri)
    /\ UNCHANGED <<windows, uri, tree, binds, last, err, hres, heap, ns, tx, resp>>

NextUri == SetUri

SpecUri == InitUri /\ [][NextUri]_vars

---------------------------------------------------------------------------
(* SpecReq: the operations of a Request, in any order *)

SegA == <<"a">>
SegB == <<"b">>
SegBooks == <<"b", "o", "o", "k", "s">>
SegContent == <<"c", "o", "n", "t", "e", "n", "t">>

ReqSegSeqs ==
    StringsUpTo({SegA, SegB}, MaxSegs)
        \cup {<<SegBooks, SegContent>>, <<SegBooks>>, <<<<>>>>, <<SegA, <<>>>>}

ApiNames == StringsUpTo({SegA, SegB}, MaxNameLen)

DescNo == <<"n", "o">>
DescBoom == <<"b", "o", "o", "m">>
CauseDisk == <<"d", "i", "s", "k">>
CauseIo == <<"i", "o">>

ExtraKeys == {"isbn", "user"}
ExtraTypes == {"u32", "String"}
ExtraVals == {[type |-> "u32", v |-> "1"], [type |-> "String", v |-> "x"]}
StashedIsbn == [type |-> "u32", v |-> "978"]

LeafOk(name) == Leaf(name, Ok(ResponseNew))
StashBooks == StashApi(<<SegBooks>>, "isbn", StashedIsbn, <<LeafOk(<<SegContent>>)>>)
NsDeep ==
    NamespaceOf(<<SegA>>,
        <<NamespaceOf(<<SegB>>,
              <<Leaf(<<>>, Err(ErrorWithHeader(
                  ErrorWithCause(ErrorInternal(DescBoom), <<CauseDisk, CauseIo>>),
                  "Retry-After", HeaderNum(5))))>>)>>)

\* the handlers a Namespace is composed of
Catalog ==
    {LeafOk(name) : name \in {<<>>, <<SegA>>, <<SegB>>, <<SegA, SegB>>}}
        \cup {Leaf(<<SegA>>, Err(ErrorForbidden(DescNo))),
              NamespaceOf(<<SegA>>, <<LeafOk(<<SegB>>)>>),
              NsDeep, StashBooks}

InitReq ==
    /\ windows = FALSE
    /\ pc = "new"
    /\ uri = [path |-> <<>>, query |-> NoQuery]
    /\ req = RequestNew("GET")
    /\ tree = <<>> /\ binds = <<>>
    /\ last = NoLast
    /\ err = NoError /\ hres = NoHyperResponse /\ resp = NoResponse
    /\ heap = <<>> /\ ns = 0 /\ tx = <<>>

\* Request::set_path_segs / with_path_segs
SetPathSegs(path_segs) ==
    /\ pc \in {"new", "build"}
    /\ pc' = "req"
    /\ req' = set_path_segs(req, path_segs)
    /\ last' = [op |-> "set_path_segs"]
    /\ UNCHANGED <<windows, uri, tree, binds, err, hres, heap, ns, tx, resp>>

\* Request::match_segs
MatchSegs(name) ==
    /\ pc = "req"
    /\ LET m == match_segs(req, name)
       IN  /\ req' = m.req
           /\ last' = [op |-> "match_segs", name |-> name, before |-> req,
                       ret |-> m.ret, panic |-> m.panic]
    /\ UNCHANGED <<windows, pc, uri, tree, binds, err, hres, heap, ns, tx, resp>>

\* Request::set_extra
SetExtra(key, val) ==
    /\ pc = "req"
    /\ req' = set_extra(req, key, val)
    /\ last' = [op |-> "set_extra", key |-> key, val |-> val]
    /\ UNCHANGED <<windows, pc, uri, tree, binds, err, hres, heap, ns, tx, resp>>

\* Request::extra
Extra(key, type) ==
    /\ pc \in {"req", "routed"}
    /\ last' = [op |-> "extra", key |-> key, type |-> type,
                opt |-> extra(req, key, type)]
    /\ UNCHANGED <<windows, pc, uri, req, tree, binds, err, hres, heap, ns, tx, resp>>

NextReq ==
    \/ \E path_segs \in ReqSegSeqs : SetPathSegs(path_segs)
    \/ \E name \in ApiNames : MatchSegs(name)
    \/ \E key \in ExtraKeys, val \in ExtraVals : SetExtra(key, val)
    \/ \E key \in ExtraKeys, type \in ExtraTypes : Extra(key, type)

SpecReq == InitReq /\ [][NextReq]_vars

---------------------------------------------------------------------------
(* SpecNs: a Namespace is composed with bind and with_api, a Request is
   prepared, and the Namespace routes it *)

InitNs ==
    /\ windows = FALSE
    /\ pc = "build"
    /\ uri = [path |-> <<>>, query |-> NoQuery]
    /\ req = RequestNew("GET")
    /\ tree = NamespaceOf(<<>>, <<>>).apis
    /\ binds = <<>>
    /\ last = NoLast
    /\ err = NoError /\ hres = NoHyperResponse /\ resp = NoResponse
    /\ heap = <<>> /\ ns = 0 /\ tx = <<>>

\* Namespace::bind
Bind(api) ==
    /\ pc = "build"
    /\ Len(tree) < MaxApis
    /\ tree' = NsBind(tree, api)
    /\ binds' = Append(binds, api)
    /\ UNCHANGED <<windows, pc, uri, req, last, err, hres, heap, ns, tx, resp>>

\* Namespace::with_api
WithApi(api) ==
    /\ pc = "build"
    /\ Len(tree) < MaxApis
    /\ tree' = NsBind(tree, api)
    /\ binds' = Append(binds, api)
    /\ UNCHANGED <<windows, pc, uri, req, last, err, hres, heap, ns, tx, resp>>

\* Namespace::route
Route ==
    /\ pc = "req"
    /\ pc' = "routed"
    /\ LET r == NsRoute(tree, req)
       IN  /\ req' = r.req
           /\ last' = [op |-> "route", before |-> req, ret |-> r.ret,
                       trace |-> r.trace, panic |-> r.panic]
    /\ UNCHANGED <<windows, uri, tree, binds, err, hres, heap, ns, tx, resp>>

NextNs ==
    \/ \E api \in Catalog : Bind(api)
    \/ \E api \in Catalog : WithApi(api)
    \/ \E path_segs \in ReqSegSeqs : SetPathSegs(path_segs)
    \/ \E key \in ExtraKeys, val \in ExtraVals : SetExtra(key, val)
    \/ Route
    \/ \E key \in ExtraKeys, type \in ExtraTypes : Extra(key, type)

SpecNs == InitNs /\ [][NextNs]_vars

---------------------------------------------------------------------------
(* SpecErr: an Error is constructed, given headers and a cause, and converted
   into the transport response *)

DescMissing == <<"m", "i", "s", "s", "i", "n", "g">>
DescQuoted == <<"a", "\"", "b">>
DescAccent == <<"c", "a", "f", EAcute>>

Descriptions == {DescMissing, <<>>, DescQuoted, DescAccent, DescBoom}

StatusFound == 302
OtherStatuses == {StatusFound, StatusNotFound, StatusInternalServerError}

CauseChains == {<<CauseDisk>>, <<CauseDisk, CauseIo>>}

ErrorHeaderValues ==
    [name \in {ContentType, ContentLength, "Location"} |->
        CASE name = ContentType -> {HeaderText("text/plain")}
          [] name = ContentLength -> {HeaderNum(99)}
          [] name = "Location" -> {HeaderText("/login")}]

HeaderSets == {NoHeaders, HeadersSet(NoHeaders, "Location", HeaderText("/moved"))}

InitErr ==
    /\ windows = FALSE
    /\ pc = "none"
    /\ uri = [path |-> <<>>, query |-> NoQuery]
    /\ req = RequestNew("GET")
    /\ tree = <<>> /\ binds = <<>>
    /\ last = NoLast
    /\ err = NoError /\ hres = NoHyperResponse /\ resp = NoResponse
    /\ heap = <<>> /\ ns = 0 /\ tx = <<>>

\* an Error leaves one of its constructors
Constructed(op, description, e) ==
    /\ pc' = "err"
    /\ err' = e
    /\ last' = [op |-> op, description |-> description]
    /\ UNCHANGED <<windows, uri, req, tree, binds, hres, heap, ns, tx, resp>>

ErrNew(status, description) ==
    /\ pc = "none"
    /\ Constructed("new", description, ErrorNew(status, description))
ErrInternal(description) ==
    /\ pc = "none"
    /\ Constructed("internal", description, ErrorInternal(description))
ErrUnauthorized(description) ==
    /\ pc = "none"
    /\ Constructed("unauthorized", description, ErrorUnauthorized(description))
ErrBadRequest(description) ==
    /\ pc = "none"
    /\ Constructed("bad_request", description, ErrorBadRequest(description))
ErrForbidden(description) ==
    /\ pc = "none"
    /\ Constructed("forbidden", description, ErrorForbidden(description))
ErrNotFound(description) ==
    /\ pc = "none"
    /\ Constructed("not_found", description, ErrorNotFound(description))
ErrMethodNotAllowed ==
    /\ pc = "none"
    /\ Constructed("method_not_allowed", <<>>, ErrorMethodNotAllowed)

\* Error::set_header / with_header
ErrSetHeader(name, val) ==
    /\ pc = "err"
    /\ err' = ErrorWithHeader(err, name, val)
    /\ UNCHANGED <<windows, pc, uri, req, tree, binds, last, hres, heap, ns, tx, resp>>

\* Error::set_headers / with_headers
ErrSetHeaders(hs) ==
    /\ pc = "err"
    /\ err' = ErrorWithHeaders(err, hs)
    /\ UNCHANGED <<windows, pc, uri, req, tree, binds, last, hres, heap, ns, tx, resp>>

\* Error::set_cause / with_cause
ErrSetCause(chain) ==
    /\ pc = "err"
    /\ err' = ErrorWithCause(err, chain)
    /\ UNCHANGED <<windows, pc, uri, req, tree, binds, last, hres, heap, ns, tx, resp>>

\* Into<HyperResponse>::into
ErrInto ==
    /\ pc = "err"
    /\ pc' = "sent"
    /\ hres' = ErrorIntoHyper(err)
    /\ UNCHANGED <<windows, uri, req, tree, binds, last, err, heap, ns, tx, resp>>

NextErr ==
    \/ \E status \in OtherStatuses, d \in Descriptions : ErrNew(status, d)
    \/ \E d \in Descriptions : ErrInternal(d)
    \/ \E d \in Descriptions : ErrUnauthorized(d)
    \/ \E d \in Descriptions : ErrBadRequest(d)
    \/ \E d \in Descriptions : ErrForbidden(d)
    \/ \E d \in Descriptions : ErrNotFound(d)
    \/ ErrMethodNotAllowed
    \/ \E name \in DOMAIN ErrorHeaderValues :
           \E val \in ErrorHeaderValues[name] : ErrSetHeader(name, val)
    \/ \E hs \in HeaderSets : ErrSetHeaders(hs)
    \/ \E chain \in CauseChains : ErrSetCause(chain)
    \/ ErrInto

SpecErr == InitErr /\ [][NextErr]_vars

---------------------------------------------------------------------------
(* Spec: the Writium dispatcher. Handlers are bound to the root, transport
   requests are handed to route, their bodies arrive chunk by chunk, and each
   completed body is routed through the Namespace the transaction took at its
   route call *)

\* Request::set_headers, Request::set_body
set_headers(r, headers) == [r EXCEPT !.headers = headers]
set_body(r, body) == [r EXCEPT !.body = body]

\* the Arc<Namespace> allocations: strong count and the Namespace's apis
Addrs == 1..(MaxTx + 1)
FreeCell == [strong |-> 0, apis |-> <<>>]
\* the allocator hands out the lowest free address
ArcAlloc(h) == CHOOSE a \in Addrs : h[a].strong = 0 /\ \A b \in Addrs : h[b].strong = 0 => a <= b
ArcNew(h, a, apis) == [h EXCEPT ![a] = [strong |-> 1, apis |-> apis]]
ArcClone(h, a) == [h EXCEPT ![a].strong = @ + 1]
ArcDrop(h, a) ==
    IF h[a].strong = 1 THEN [h EXCEPT ![a] = FreeCell]
    ELSE [h EXCEPT ![a].strong = @ - 1]

\* an Arc::make_mut that never clones
ArcIsUniqueAlways(h, a) == TRUE

\* Arc::make_mut mutates in place exactly when no other reference exists
ArcIsUnique(h, a) == h[a].strong = 1

\* a concat2 that keeps the chunk polled last
Concat2KeepLast(body, chunk) == chunk

\* Stream::concat2 extends what it has with each chunk polled
Concat2Extend(body, chunk) == body \o chunk

\* StatusCode::is_server_error, is_client_error
IsServerError(status) == status >= 500 /\ status <= 599
IsClientError(status) == status >= 400 /\ status <= 499

\* the loop over err.cause(): one line per cause, outermost first
RECURSIVE CauseLines(_)
CauseLines(chain) ==
    IF chain = <<>> THEN <<>>
    ELSE <<[fmt |-> "\tBy: {}", arg |-> Head(chain)]>> \o CauseLines(Tail(chain))

\* an Err arm that logs a server error without its causes
LogOfWithoutCauses(e) ==
    IF IsServerError(e.status)
    THEN <<(<<[fmt |-> "Unexpected error occured: {}", arg |-> e.description]>>)>>
    ELSE IF IsClientError(e.status)
    THEN <<(<<[fmt |-> "Bad request induced an error: {}", arg |-> e.description]>>)>>
    ELSE <<>>

\* the warn! records of the Err arm; a record is its lines, joined by "\n"
LogOf(e) ==
    IF IsServerError(e.status)
    THEN <<(<<[fmt |-> "Unexpected error occured: {}", arg |-> e.description]>>
                \o CauseLines(e.cause))>>
    ELSE IF IsClientError(e.status)
    THEN <<(<<[fmt |-> "Bad request induced an error: {}", arg |-> e.description]>>)>>
    ELSE <<>>

\* the match on what ns.route returned: the response, and the warn! records
RouteMatch(built, d) ==
    [built |-> built, req |-> d.req, ret |-> d.ret, trace |-> d.trace,
     panic |-> d.panic,
     out |-> IF d.panic THEN <<>>
             ELSE IF d.ret.ok THEN <<ResponseIntoHyper(d.ret.res)>>
             ELSE <<ErrorIntoHyper(d.ret.err)>>,
     log |-> IF d.panic \/ d.ret.ok THEN <<>> ELSE LogOf(d.ret.err)]

\* ns.route on the Request as built
RouteBuilt(apis, built) == RouteMatch(built, NsRoute(apis, built))

\* the closure given to map: builds the Request, routes it, converts the result
RouteClosure(win, apis, method, headers, body, u) ==
    LET r0 == RequestNew(method)
        r1 == set_headers(r0, headers)
        r2 == set_body(r1, body)
    IN  RouteBuilt(apis, set_uri(win, r2, u))

DescMoved == <<"m", "o", "v", "e", "d">>
NsBooks ==
    NamespaceOf(<<SegBooks>>,
        <<LeafOk(<<SegContent>>), Leaf(<<>>, Err(ErrorNew(StatusFound, DescMoved)))>>)

\* the handlers bound to the root
RootCatalog == {NsBooks, NsDeep, Leaf(<<SegA>>, Err(ErrorForbidden(DescNo)))}

PathBooksContent == <<"/", "b", "o", "o", "k", "s", "/", "c", "o", "n", "t", "e", "n", "t">>
PathAB == <<"/", "a", "/", "b">>
PathAUpBooks == <<"/", "a", "/", ".", ".", "/", "b", "o", "o", "k", "s">>

TxPaths == {PathBooksContent, PathAB, PathAUpBooks}
Methods == {"POST"}
JsonHeaders == HeadersSet(NoHeaders, ContentType, HeaderText("application/json"))
TxHeaders == {JsonHeaders}

\* the ways a body arrives: cut into at most n chunks, none of them empty
RECURSIVE Splits(_, _)
Splits(b, n) ==
    IF b = <<>> THEN {<<>>}
    ELSE IF n = 0 THEN {}
    ELSE UNION {{<<SubSeq(b, 1, k)>> \o rest : rest \in Splits(SubSeq(b, k + 1, Len(b)), n - 1)} :
                k \in 1..Len(b)}

Bodies == {<<>>, <<123, 125>>}
ChunkLists == UNION {Splits(b, MaxChunks) : b \in Bodies}

NoUri == [path |-> <<>>, query |-> NoQuery]

IdleTx ==
    [pc |-> "idle", method |-> "", uri |-> NoUri, headers |-> NoHeaders,
     chunks |-> <<>>, stream |-> <<>>, body |-> <<>>, ns |-> 0,
     nbinds |-> 0, apis |-> <<>>,
     built |-> RequestNew(""), req |-> RequestNew(""), ret |-> Ok(NoResponse),
     trace |-> <<>>, panic |-> FALSE, out |-> <<>>, log |-> <<>>]

\* Writium::new
Init ==
    /\ windows = FALSE
    /\ pc = "serving"
    /\ uri = NoUri
    /\ req = RequestNew("GET")
    /\ tree = <<>> /\ binds = <<>> /\ last = NoLast
    /\ err = NoError /\ hres = NoHyperResponse /\ resp = NoResponse
    /\ ns = 1
    /\ heap = ArcNew([a \in Addrs |-> FreeCell], 1, NamespaceOf(<<>>, <<>>).apis)
    /\ tx = [t \in 1..MaxTx |-> IdleTx]

\* Writium::bind
WritiumBind(api) ==
    /\ Len(heap[ns].apis) < MaxApis
    /\ IF ArcIsUnique(heap, ns)
       THEN /\ heap' = [heap EXCEPT ![ns].apis = NsBind(@, api)]
            /\ ns' = ns
       ELSE /\ heap' = ArcNew(ArcDrop(heap, ns), ArcAlloc(heap), NsBind(heap[ns].apis, api))
            /\ ns' = ArcAlloc(heap)
    /\ binds' = Append(binds, api)
    /\ UNCHANGED <<windows, pc, uri, req, tree, last, err, hres, tx, resp>>

\* Writium::route: the request is taken apart, the root is cloned, and the
\* future is made; nothing of the body is read yet
WritiumRoute(t, method, u, headers, chunks) ==
    /\ tx[t].pc = "idle"
    /\ heap' = ArcClone(heap, ns)
    /\ tx' = [tx EXCEPT ![t] =
                 [IdleTx EXCEPT !.pc = "recv", !.method = method, !.uri = u,
                                !.headers = headers, !.chunks = chunks,
                                !.stream = chunks, !.ns = ns,
                                !.nbinds = Len(binds)]]
    /\ UNCHANGED <<windows, pc, uri, req, tree, binds, last, err, hres, ns, resp>>

\* the future is polled and the body stream yields a chunk
Concat2Chunk(t) ==
    /\ tx[t].pc = "recv"
    /\ tx[t].stream # <<>>
    /\ tx' = [tx EXCEPT ![t].body = Concat2Extend(@, Head(tx[t].stream)),
                        ![t].stream = Tail(@)]
    /\ UNCHANGED <<windows, pc, uri, req, tree, binds, last, err, hres, heap, ns, resp>>

\* the future is polled and the body stream has ended: the closure runs on
\* the whole body, and is dropped with its clone of the root
Concat2End(t) ==
    /\ tx[t].pc = "recv"
    /\ tx[t].stream = <<>>
    /\ \E c \in {RouteClosure(windows, heap[tx[t].ns].apis, tx[t].method,
                              tx[t].headers, tx[t].body, tx[t].uri)} :
           tx' = [tx EXCEPT ![t].pc = IF c.panic THEN "panicked" ELSE "done",
                            ![t].built = c.built, ![t].req = c.req,
                            ![t].ret = c.ret, ![t].trace = c.trace,
                            ![t].panic = c.panic, ![t].out = c.out,
                            ![t].log = c.log, ![t].ns = 0,
                            ![t].apis = heap[tx[t].ns].apis]
    /\ heap' = ArcDrop(heap, tx[t].ns)
    /\ UNCHANGED <<windows, pc, uri, req, tree, binds, last, err, hres, ns, resp>>

\* the body stream fails: the future resolves to the transport's error, the
\* closure never runs and is dropped with its clone of the root
BodyError(t) ==
    /\ tx[t].pc = "recv"
    /\ tx' = [tx EXCEPT ![t] = [IdleTx EXCEPT !.pc = "failed"]]
    /\ heap' = ArcDrop(heap, tx[t].ns)
    /\ UNCHANGED <<windows, pc, uri, req, tree, binds, last, err, hres, ns, resp>>

Next ==
    \/ \E api \in RootCatalog : WritiumBind(api)
    \/ \E t \in 1..MaxTx, method \in Methods, path \in TxPaths,
          headers \in TxHeaders, chunks \in ChunkLists :
           WritiumRoute(t, method, [path |-> path, query |-> NoQuery], headers, chunks)
    \/ \E t \in 1..MaxTx : Concat2Chunk(t)
    \/ \E t \in 1..MaxTx : Concat2End(t)
    \/ \E t \in 1..MaxTx : BodyError(t)

Spec == Init /\ [][Next]_vars

---------------------------------------------------------------------------
(* SpecJson: a Request and a Response are given headers, bodies and JSON
   values, and are read back with to_json *)

\* the values handed to set_json: numbers, strings, one-member objects
JNum(n) == [t |-> "num", n |-> n]
JStr(str) == [t |-> "str", s |-> str]
JObj(key, val) == [t |-> "obj", k |-> key, v |-> val]
NoJson == [t |-> "none"]

RECURSIVE NatDigits(_)
NatDigits(n) ==
    IF n < 10 THEN <<48 + n>> ELSE NatDigits(n \div 10) \o <<48 + (n % 10)>>

\* a string character as serde_json writes it: the quote and the backslash
\* are escaped with a backslash
EscapeChar(c) ==
    IF c = "\"" THEN <<92, 34>>
    ELSE IF c = Backslash THEN <<92, 92>>
    ELSE Utf8Char(c)

RECURSIVE EscapeStr(_)
EscapeStr(str) ==
    IF str = <<>> THEN <<>> ELSE EscapeChar(Head(str)) \o EscapeStr(Tail(str))

\* serde_json::to_vec: the compact encoding
RECURSIVE ToVec(_)
ToVec(json) ==
    CASE json.t = "num" ->
             IF json.n < 0 THEN <<45>> \o NatDigits(0 - json.n) ELSE NatDigits(json.n)
      [] json.t = "str" -> <<34>> \o EscapeStr(json.s) \o <<34>>
      [] json.t = "obj" ->
             <<123, 34>> \o EscapeStr(json.k) \o <<34, 58>> \o ToVec(json.v) \o <<125>>

\* the parsers of serde_json::from_slice: each gives what it read and the
\* bytes after it, or fails
ParseFail == [ok |-> FALSE, v |-> NoJson, rest |-> <<>>]
Parsed(v, rest) == [ok |-> TRUE, v |-> v, rest |-> rest]
IsDigit(b) == b >= 48 /\ b <= 57

RECURSIVE ParseDigits(_, _)
ParseDigits(b, acc) ==
    IF b # <<>> /\ IsDigit(b[1]) THEN ParseDigits(Tail(b), 10 * acc + (b[1] - 48))
    ELSE Parsed(acc, b)

\* a number: a zero, or digits that start with no zero
ParseNat(b) ==
    IF b = <<>> \/ ~IsDigit(b[1]) THEN ParseFail
    ELSE IF b[1] = 48 THEN Parsed(0, Tail(b))
    ELSE ParseDigits(b, 0)

\* the characters of a string up to its closing quote
RECURSIVE ParseChars(_, _)
ParseChars(b, acc) ==
    IF b = <<>> THEN ParseFail
    ELSE IF b[1] = 34 THEN Parsed(acc, Tail(b))
    ELSE IF b[1] = 92
    THEN IF Len(b) >= 2 /\ b[2] = 34 THEN ParseChars(SubSeq(b, 3, Len(b)), Append(acc, "\""))
         ELSE IF Len(b) >= 2 /\ b[2] = 92
         THEN ParseChars(SubSeq(b, 3, Len(b)), Append(acc, Backslash))
         ELSE ParseFail
    ELSE IF Len(b) >= 2 /\ b[1] = 195 /\ b[2] = 169
    THEN ParseChars(SubSeq(b, 3, Len(b)), Append(acc, EAcute))
    ELSE IF b[1] >= 32 /\ b[1] <= 126
    THEN ParseChars(Tail(b), Append(acc, AsciiChars[b[1] - 31]))
    ELSE ParseFail

NegNum(p) == IF p.ok THEN Parsed(JNum(0 - p.v), p.rest) ELSE ParseFail
PosNum(p) == IF p.ok THEN Parsed(JNum(p.v), p.rest) ELSE ParseFail
StrOf(p) == IF p.ok THEN Parsed(JStr(p.v), p.rest) ELSE ParseFail

RECURSIVE ParseValue(_)
\* the member's value, if the colon is there and the brace closes after it
ParseMember(key) ==
    IF ~key.ok \/ key.rest = <<>> \/ key.rest[1] # 58 THEN ParseFail
    ELSE LET val == ParseValue(Tail(key.rest))
         IN  IF val.ok /\ val.rest # <<>> /\ val.rest[1] = 125
             THEN Parsed(JObj(key.v, val.v), Tail(val.rest))
             ELSE ParseFail

ParseValue(b) ==
    IF b = <<>> THEN ParseFail
    ELSE IF b[1] = 34 THEN StrOf(ParseChars(Tail(b), <<>>))
    ELSE IF b[1] = 45 THEN NegNum(ParseNat(Tail(b)))
    ELSE IF IsDigit(b[1]) THEN PosNum(ParseNat(b))
    ELSE IF b[1] = 123 /\ Len(b) >= 2 /\ b[2] = 34
    THEN ParseMember(ParseChars(SubSeq(b, 3, Len(b)), <<>>))
    ELSE ParseFail

\* serde_json::from_slice: one value and nothing after it
FromSlice(b) ==
    LET p == ParseValue(b)
    IN  IF p.ok /\ p.rest = <<>> THEN p ELSE ParseFail

\* the descriptions of the errors of to_json
NotJsonDescription ==
    <<"C", "o", "n", "t", "e", "n", "t", " ", "s", "h", "o", "u", "l", "d",
      " ", "b", "e", " ", "o", "f", " ", "t", "y", "p", "e", " ", "grave",
      "a", "p", "p", "l", "i", "c", "a", "t", "i", "o", "n", "/", "j", "s",
      "o", "n", "grave", ".">>
DeserializeDescription ==
    <<"U", "n", "a", "b", "l", "e", " ", "t", "o", " ", "d", "e", "s", "e",
      "r", "i", "a", "l", "i", "z", "e", " ", "b", "o", "d", "y", " ", "a",
      "s", " ", "J", "S", "O", "N", ".">>
\* the serde_json error given as the cause
CauseSerde == <<"s", "e", "r", "d", "e">>

TextJson == HeaderText("text/json")
AppJson == HeaderText("application/json")
AppForm == HeaderText("application/x-www-form-urlencoded")
ContentTypes == {JsonUtf8, AppJson, TextJson, AppForm}

\* Mime::type_ and Mime::subtype of a Content-Type
MimeOf(val) ==
    CASE val = JsonUtf8 -> [type |-> "application", subtype |-> "json"]
      [] val = AppJson -> [type |-> "application", subtype |-> "json"]
      [] val = TextJson -> [type |-> "text", subtype |-> "json"]
      [] val = AppForm -> [type |-> "application", subtype |-> "x-www-form-urlencoded"]

\* Result<T> of to_json
JOk(json) == [ok |-> TRUE, v |-> json, err |-> NoError]
JErr(e) == [ok |-> FALSE, v |-> NoJson, err |-> e]

\* Request::to_json
to_json(r) ==
    IF /\ ContentType \in DOMAIN r.headers
       /\ \/ MimeOf(r.headers[ContentType]).type # "application"
          \/ MimeOf(r.headers[ContentType]).subtype # "json"
    THEN JErr(ErrorBadRequest(NotJsonDescription))
    ELSE LET p == FromSlice(r.body)
         IN  IF p.ok THEN JOk(p.v)
             ELSE JErr(ErrorWithCause(ErrorInternal(DeserializeDescription), <<CauseSerde>>))

\* Request::set_header
set_header(r, name, val) == [r EXCEPT !.headers = HeadersSet(@, name, val)]

\* Request::set_json (to_vec does not fail on the values modelled)
set_json(r, json) ==
    [r EXCEPT !.body = ToVec(json),
              !.headers = HeadersSet(@, ContentType, JsonUtf8)]

\* Response::to_json
ResponseToJson(res) ==
    IF /\ ContentType \in DOMAIN res.headers
       /\ \/ MimeOf(res.headers[ContentType]).type # "application"
          \/ MimeOf(res.headers[ContentType]).subtype # "json"
    THEN JErr(ErrorBadRequest(NotJsonDescription))
    ELSE LET p == FromSlice(res.body)
         IN  IF p.ok THEN JOk(p.v)
             ELSE JErr(ErrorWithCause(ErrorInternal(DeserializeDescription), <<CauseSerde>>))

\* Response::set_header, Response::set_body
ResponseSetHeader(res, name, val) == [res EXCEPT !.headers = HeadersSet(@, name, val)]
ResponseSetBody(res, body) == [res EXCEPT !.body = body]

\* a set_json that leaves the headers as they are
ResponseSetJsonBodyOnly(res, json) == [res EXCEPT !.body = ToVec(json)]

\* Response::set_json (to_vec does not fail on the values modelled)
ResponseSetJson(res, json) ==
    [res EXCEPT !.body = ToVec(json),
                !.headers = HeadersSet(@, ContentType, JsonUtf8)]

JsonX1 == JObj(<<"x">>, JNum(1))
JsonValues ==
    {JsonX1, JNum(0 - 12), JStr(<<"a", "\"", Backslash, EAcute>>),
     JObj(<<"k", "\"">>, JObj(<<"y">>, JStr(<<>>)))}

\* bodies that are no JSON value: nothing, and an object cut short
RawBodies == {<<>>, <<123, 34, 120, 34, 58>>}

InitJson ==
    /\ windows = FALSE
    /\ pc = "json"
    /\ uri = [path |-> <<>>, query |-> NoQuery]
    /\ req = RequestNew("POST")
    /\ tree = <<>> /\ binds = <<>> /\ last = NoLast
    /\ err = NoError /\ hres = NoHyperResponse /\ resp = ResponseNew
    /\ heap = <<>> /\ ns = 0 /\ tx = <<>>

\* history: the value the last operation wrote with set_json or with_json
Wrote(on) ==
    IF last.op \in {"set_json", "with_json"} /\ last.on = on
    THEN [some |-> TRUE, v |-> last.json]
    ELSE [some |-> FALSE, v |-> NoJson]

ReqSetHeader(val) ==
    /\ pc = "json"
    /\ req' = set_header(req, ContentType, val)
    /\ last' = [op |-> "set_header", on |-> "req"]
    /\ UNCHANGED <<windows, pc, uri, tree, binds, err, hres, heap, ns, tx, resp>>

ReqSetBody(body) ==
    /\ pc = "json"
    /\ req' = set_body(req, body)
    /\ last' = [op |-> "set_body", on |-> "req"]
    /\ UNCHANGED <<windows, pc, uri, tree, binds, err, hres, heap, ns, tx, resp>>

ReqSetJson(json) ==
    /\ pc = "json"
    /\ req' = set_json(req, json)
    /\ last' = [op |-> "set_json", on |-> "req", json |-> json]
    /\ UNCHANGED <<windows, pc, uri, tree, binds, err, hres, heap, ns, tx, resp>>

\* Request::with_json
ReqWithJson(json) ==
    /\ pc = "json"
    /\ req' = set_json(req, json)
    /\ last' = [op |-> "with_json", on |-> "req", json |-> json]
    /\ UNCHANGED <<windows, pc, uri, tree, binds, err, hres, heap, ns, tx, resp>>

ReqToJson ==
    /\ pc = "json"
    /\ last' = [op |-> "to_json", on |-> "req", result |-> to_json(req),
                wrote |-> Wrote("req")]
    /\ UNCHANGED <<windows, pc, uri, req, tree, binds, err, hres, heap, ns, tx, resp>>

ResSetHeader(val) ==
    /\ pc = "json"
    /\ resp' = ResponseSetHeader(resp, ContentType, val)
    /\ last' = [op |-> "set_header", on |-> "res"]
    /\ UNCHANGED <<windows, pc, uri, req, tree, binds, err, hres, heap, ns, tx>>

ResSetBody(body) ==
    /\ pc = "json"
    /\ resp' = ResponseSetBody(resp, body)
    /\ last' = [op |-> "set_body", on |-> "res"]
    /\ UNCHANGED <<windows, pc, uri, req, tree, binds, err, hres, heap, ns, tx>>

ResSetJson(json) ==
    /\ pc = "json"
    /\ resp' = ResponseSetJson(resp, json)
    /\ last' = [op |-> "set_json", on |-> "res", json |-> json]
    /\ UNCHANGED <<windows, pc, uri, req, tree, binds, err, hres, heap, ns, tx>>

\* Response::with_json
ResWithJson(json) ==
    /\ pc = "json"
    /\ resp' = ResponseSetJson(resp, json)
    /\ last' = [op |-> "with_json", on |-> "res", json |-> json]
    /\ UNCHANGED <<windows, pc, uri, req, tree, binds, err, hres, heap, ns, tx>>

ResToJson ==
    /\ pc = "json"
    /\ last' = [op |-> "to_json", on |-> "res", result |-> ResponseToJson(resp),
                wrote |-> Wrote("res")]
    /\ UNCHANGED <<windows, pc, uri, req, tree, binds, err, hres, heap, ns, tx, resp>>

NextJson ==
    \/ \E val \in ContentTypes : ReqSetHeader(val)
    \/ \E body \in RawBodies : ReqSetBody(body)
    \/ \E json \in JsonValues : ReqSetJson(json)
    \/ \E json \in JsonValues : ReqWithJson(json)
    \/ ReqToJson
    \/ \E val \in ContentTypes : ResSetHeader(val)
    \/ \E body \in RawBodies : ResSetBody(body)
    \/ \E json \in JsonValues : ResSetJson(json)
    \/ \E json \in JsonValues : ResWithJson(json)
    \/ ResToJson

SpecJson == InitJson /\ [][NextJson]_vars

---------------------------------------------------------------------------
(* The claims *)

IsPrefix(name, segs) ==
    /\ Len(name) <= Len(segs)
    /\ \A i \in 1..Len(name) : segs[i] = name[i]

\* the positions of apis whose name the segments start with
Matching(apis, segs) == {i \in 1..Len(apis) : IsPrefix(apis[i].name, segs)}

Least(S) == CHOOSE i \in S : \A j \in S : i <= j

\* the visits of a trace below the root Namespace
Below(trace) == {k \in 1..Len(trace) : trace[k].at # <<>>}

ApiNotFound ==
    [ok |-> FALSE, res |-> NoResponse,
     err |-> [status |-> 404, headers |-> <<>>,
              description |-> ApiNotFoundDescription, cause |-> <<>>]]

\* C1: the handlers of a Namespace are kept in the order they were added (each
\* bind or with_api appends), and route dispatches to the first added handler
\* among those whose name the remaining segments start with; no other child
\* is entered.
C1_FirstRegisteredWins ==
    /\ tree = binds
    /\ last.op = "route" =>
          LET m == Matching(binds, last.before.path_segs)
          IN  m # {} =>
                  /\ Len(last.trace) >= 2
                  /\ last.trace[2].at = <<Least(m)>>
                  /\ last.trace[2].name = binds[Least(m)].name
                  /\ last.trace[2].kind = binds[Least(m)].kind
                  /\ \A k \in Below(last.trace) : last.trace[k].at[1] = Least(m)

C1_Witness ==
    /\ last.op = "route"
    /\ Len(binds) = 2
    /\ binds[1].name = <<SegA>>
    /\ binds[2].name = <<SegA, SegB>>
    /\ last.before.path_segs = <<SegA, SegB>>
    /\ last.trace[2].at = <<1>>

\* C2: when no child's name matches, route answers the 404 error "Unable to
\* find the requested API." without panicking, enters no child and leaves the
\* request as it was; this for every child list and every segment sequence.
C2_NoMatchIsNotFound ==
    last.op = "route" =>
        /\ ~last.panic
        /\ Matching(tree, last.before.path_segs) = {} =>
               /\ last.ret = ApiNotFound
               /\ Below(last.trace) = {}
               /\ req = last.before

C2_Witness ==
    /\ last.op = "route"
    /\ Len(tree) = 2
    /\ last.before.path_segs = <<SegA>>
    /\ tree[1].name = <<SegA, SegB>>
    /\ Matching(tree, last.before.path_segs) = {}
    /\ last.ret = ApiNotFound

\* C3: match_segs(name) is true exactly when the request's segments start
\* with name; a false result leaves the request unchanged, a true one removes
\* exactly the leading len(name) segments and keeps the rest in order.
C3_MatchSegsExact ==
    last.op = "match_segs" =>
        /\ ~last.panic
        /\ last.ret <=> IsPrefix(last.name, last.before.path_segs)
        /\ ~last.ret => req = last.before
        /\ last.ret =>
               /\ last.before.path_segs = last.name \o req.path_segs
               /\ req = [last.before EXCEPT !.path_segs = req.path_segs]

\* a proper prefix of the name matched
C3_Witness ==
    /\ last.op = "match_segs"
    /\ last.name = <<SegA, SegB>>
    /\ last.before.path_segs = <<SegA, SegA>>
    /\ ~last.ret
    /\ req.path_segs = <<SegA, SegA>>

\* C4: a child with an empty name matches whatever segments remain (none
\* included) and consumes none of them; in a Namespace of two handlers whose
\* first has an empty name, route always enters the first and never the second.
C4_EmptyNameFuse ==
    last.op = "route" =>
        /\ \A i \in 1..Len(tree) :
               (tree[i].name = <<>>
                    /\ \A j \in 1..(i - 1) : j \notin Matching(tree, last.before.path_segs))
               => /\ Len(last.trace) >= 2
                  /\ last.trace[2].at = <<i>>
                  /\ last.trace[2].segs = last.before.path_segs
        /\ (Len(tree) = 2 /\ tree[1].name = <<>>) =>
               /\ Len(last.trace) >= 2
               /\ last.trace[2].at = <<1>>
               /\ \A k \in Below(last.trace) : last.trace[k].at[1] = 1

C4_Witness ==
    /\ last.op = "route"
    /\ Len(tree) = 2
    /\ tree[1].name = <<>>
    /\ tree[2].name = <<SegA>>
    /\ last.before.path_segs = <<SegA>>
    /\ last.trace[2].at = <<1>>
    /\ last.trace[2].segs = <<SegA>>

\* the '/'-split of a text, from its last slash back
RECURSIVE SlashPieces(_)
SlashPieces(s) ==
    IF \A i \in 1..Len(s) : s[i] # "/"
    THEN <<s>>
    ELSE LET i == CHOOSE k \in 1..Len(s) :
                      s[k] = "/" /\ \A j \in (k + 1)..Len(s) : s[j] # "/"
         IN  Append(SlashPieces(SubSeq(s, 1, i - 1)), SubSeq(s, i + 1, Len(s)))

\* the stack walk over raw segments: "." dropped, ".." pops if it can
RECURSIVE StackWalk(_)
StackWalk(raw) ==
    IF raw = <<>> THEN <<>>
    ELSE LET init == StackWalk(SubSeq(raw, 1, Len(raw) - 1))
             seg == raw[Len(raw)]
         IN  IF seg = <<".", ".">>
             THEN (IF init = <<>> THEN <<>> ELSE SubSeq(init, 1, Len(init) - 1))
             ELSE IF seg = <<".">> THEN init
             ELSE init \o <<seg>>

Segments(path) ==
    IF path = <<>> \/ path[1] # "/" THEN <<>>
    ELSE StackWalk(SlashPieces(Tail(path)))

BackslashAsSlash(path) == [i \in 1..Len(path) |-> IF path[i] = "\\" THEN "/" ELSE path[i]]

C5_Examples ==
    /\ uri.path = PathABdotdot => req.path_segs = <<SegB>>
    /\ uri.path = PathABdot => req.path_segs = <<SegA, SegB>>
    /\ uri.path = PathDotDotA => req.path_segs = <<SegA>>
    /\ uri.path \in {<<>>, PathNoLead} => req.path_segs = <<>>

C5_Traversal ==
    /\ \A i \in 1..Len(req.path_segs) : req.path_segs[i] \notin {<<".">>, <<".", ".">>}
    /\ (uri.path = <<>> \/ uri.path[1] # "/") => req.path_segs = <<>>

\* C5 as stated: in every build the segments are the stack walk over the
\* '/'-split of the path after its leading '/'.
C5_AsStated ==
    pc = "set" =>
        /\ req.path_segs = Segments(uri.path)
        /\ C5_Traversal
        /\ C5_Examples

\* C5, amended: the segments are the stack walk over the '/'-split of the path
\* after its leading '/', where a Windows build first turns every '\' after
\* the leading '/' into '/'; in every build the result holds no "." and no
\* ".." segment, a path that is empty or has no leading '/' gives no segment,
\* and the examples hold.
C5_SetUriWalk ==
    pc = "set" =>
        /\ req.path_segs =
               IF windows /\ uri.path # <<>> /\ uri.path[1] = "/"
               THEN Segments(<<"/">> \o BackslashAsSlash(Tail(uri.path)))
               ELSE Segments(uri.path)
        /\ C5_Traversal
        /\ C5_Examples

C5_Witness ==
    /\ pc = "set"
    /\ uri.path = PathABdotdot
    /\ req.path_segs = <<SegB>>

MsgMissingBytes ==
    <<123, 34, 109, 115, 103, 34, 58, 34,
      109, 105, 115, 115, 105, 110, 103, 34, 125>>

\* C8: the transport response of an Error has the error's status, the body
\* {"msg":"<description>"} in UTF-8, Content-Type application/json;
\* charset=UTF-8 and Content-Length the byte length of the body, whatever the
\* caller had set for these two, and every other header of the error
\* unchanged; not_found("missing") gives 404 and exactly {"msg":"missing"}.
C8_ErrorIntoResponse ==
    pc = "sent" =>
        /\ hres.status = err.status
        /\ hres.body = <<123, 34, 109, 115, 103, 34, 58, 34>>
                           \o IntoBytes(err.description) \o <<34, 125>>
        /\ DOMAIN hres.headers = DOMAIN err.headers \cup {"Content-Type", "Content-Length"}
        /\ hres.headers["Content-Type"] =
               [text |-> "application/json; charset=UTF-8", num |-> 0]
        /\ hres.headers["Content-Length"] = [text |-> "", num |-> Len(hres.body)]
        /\ \A n \in DOMAIN err.headers \ {"Content-Type", "Content-Length"} :
               hres.headers[n] = err.headers[n]
        /\ (last.op = "not_found" /\ last.description = DescMissing) =>
               /\ hres.status = 404
               /\ hres.body = MsgMissingBytes

\* the caller had set both forced headers and another one
C8_Witness ==
    /\ pc = "sent"
    /\ DOMAIN err.headers = {"Content-Type", "Content-Length", "Location"}
    /\ err.headers["Content-Length"].num = 99
    /\ err.description = DescAccent
    /\ hres.headers["Content-Length"].num = 15
    /\ hres.headers["Location"] = err.headers["Location"]

U32One == [type |-> "u32", v |-> "1"]
StringX == [type |-> "String", v |-> "x"]

\* what the api entered as k-th of a trace must see under a key: the value an
\* outer api on the way stashed under it, else the value the request came with
Stashers(trace, k, key) == {j \in 1..(k - 1) : trace[j].kind = "stash" /\ trace[j].stash.key = key}

C9_RouteKeepsExtras ==
    last.op = "route" =>
        /\ \A k \in 1..Len(last.trace) :
               LET seen == last.trace[k].extra
               IN  /\ DOMAIN last.before.extra \subseteq DOMAIN seen
                   /\ \A key \in DOMAIN seen :
                          LET js == Stashers(last.trace, k, key)
                          IN  IF js # {}
                              THEN \E j \in js : (\A i \in js : i <= j)
                                        /\ seen[key] = last.trace[j].stash.val
                              ELSE /\ key \in DOMAIN last.before.extra
                                   /\ seen[key] = last.before.extra[key]
        /\ DOMAIN last.before.extra \subseteq DOMAIN req.extra
        /\ \A key \in DOMAIN last.before.extra :
               Stashers(last.trace, Len(last.trace) + 1, key) = {} =>
                   req.extra[key] = last.before.extra[key]

C9_SetAndRead ==
    /\ last.op = "set_extra" =>
           /\ last.key \in DOMAIN req.extra
           /\ req.extra[last.key] = last.val
    /\ last.op = "extra" =>
           /\ last.opt.some <=>
                  (last.key \in DOMAIN req.extra /\ req.extra[last.key].type = last.type)
           /\ last.opt.some => last.opt.v = req.extra[last.key].v

C9_KeysStay ==
    /\ \A key \in DOMAIN req.extra : key \in DOMAIN req'.extra
    /\ last'.op = "set_extra" =>
           \A key \in DOMAIN req.extra \ {last'.key} : req'.extra[key] = req.extra[key]
    /\ last'.op \in {"set_path_segs", "extra"} => req'.extra = req.extra

\* C9: every api entered while a request is routed sees each extra as the
\* request came with it, or as the nearest outer api on the way stashed it;
\* routing and matching remove no entry; no step removes a key; set_extra
\* under a key stores the new value (also over an old one) and leaves the
\* other keys alone; extra(key) gives the value exactly when the key is there
\* with the type asked for, and none otherwise.
C9_ExtrasPersist ==
    /\ [](C9_RouteKeepsExtras /\ C9_SetAndRead)
    /\ [][C9_KeysStay]_vars

\* the leaf under the [books] api sees the extra [books] stashed over the one
\* the request came with, and the other key as it came
C9_Witness ==
    /\ last.op = "route"
    /\ last.before.extra = [isbn |-> StringX, user |-> U32One]
    /\ Len(last.trace) = 3
    /\ last.trace[2].kind = "stash"
    /\ last.trace[3].name = <<SegContent>>
    /\ last.trace[3].extra = [isbn |-> StashedIsbn, user |-> U32One]

IsSuffix(s, segs) ==
    /\ Len(s) <= Len(segs)
    /\ s = SubSeq(segs, Len(segs) - Len(s) + 1, Len(segs))

Routed == {t \in 1..MaxTx : tx[t].pc = "done"}

\* C6: in every routed transaction the root sees the normalized segments of
\* the request, each api entered sees what its parent saw minus its own name
\* (so always a suffix of the normalized segments, and for the handler
\* finally invoked the normalized segments minus the names matched from the
\* root down); what is left on the Request after routing is what the last api
\* entered saw; and /books/content through root -> [books] -> [content]
\* reaches the leaf with no segment left.
C6_ConsumedStaysConsumed ==
    \A t \in Routed :
        LET trace == tx[t].trace
            n == Len(trace)
        IN  /\ n >= 1
            /\ trace[1].segs = Segments(tx[t].uri.path)
            /\ \A k \in 2..n : trace[k - 1].segs = trace[k].name \o trace[k].segs
            /\ \A k \in 1..n : IsSuffix(trace[k].segs, Segments(tx[t].uri.path))
            /\ tx[t].req.path_segs = trace[n].segs
            /\ (tx[t].uri.path = PathBooksContent /\ tx[t].apis # <<>>
                    /\ tx[t].apis[1] = NsBooks) =>
                   /\ n = 3
                   /\ trace[2].name = <<SegBooks>> /\ trace[2].segs = <<SegContent>>
                   /\ trace[3].name = <<SegContent>> /\ trace[3].kind = "leaf"
                   /\ trace[3].segs = <<>>
                   /\ tx[t].ret = Ok(ResponseNew)

C6_Witness ==
    \E t \in Routed :
        /\ tx[t].uri.path = PathBooksContent
        /\ tx[t].chunks = <<<<123, 125>>>>
        /\ tx[t].built.headers = JsonHeaders
        /\ tx[t].apis = <<NsBooks>>
        /\ Len(tx[t].trace) = 3
        /\ tx[t].trace[3].kind = "leaf"
        /\ tx[t].trace[3].segs = <<>>

\* C7: in every routed transaction, when the handler finally invoked returned
\* an error, every Namespace around it returned that very error (status,
\* description, headers, cause) and so the dispatcher got it, and the one
\* response of the transaction has that error's status; when no route
\* matched the response is the 404; no transaction ends in a panic.
C7_ErrorsSurface ==
    \A t \in 1..MaxTx :
        /\ tx[t].pc # "panicked"
        /\ ~tx[t].panic
        /\ t \in Routed =>
               LET trace == tx[t].trace
                   n == Len(trace)
               IN  /\ Len(tx[t].out) = 1
                   /\ (trace[n].kind = "leaf" /\ ~trace[n].ret.ok) =>
                          /\ \A k \in 1..n : trace[k].ret = trace[n].ret
                          /\ tx[t].ret = trace[n].ret
                          /\ tx[t].out[1].status = trace[n].ret.err.status
                   /\ trace[n].kind # "leaf" =>
                          /\ tx[t].ret = gen_api_not_found
                          /\ tx[t].out[1].status = 404
                   /\ ~tx[t].ret.ok => tx[t].out[1].status = tx[t].ret.err.status

C7_Witness ==
    \E t \in Routed :
        /\ Len(tx[t].trace) = 4
        /\ tx[t].trace[4].kind = "leaf"
        /\ tx[t].ret = Err([status |-> 500,
                            headers |-> [n \in {"Retry-After"} |-> HeaderNum(5)],
                            description |-> DescBoom, cause |-> <<CauseDisk, CauseIo>>])
        /\ tx[t].trace[2].ret = tx[t].ret
        /\ tx[t].out[1].status = 500

RECURSIVE Flatten(_)
Flatten(chunks) == IF chunks = <<>> THEN <<>> ELSE Head(chunks) \o Flatten(Tail(chunks))

C10_State ==
    \A t \in 1..MaxTx :
        /\ tx[t].pc = "recv" => tx[t].trace = <<>> /\ tx[t].out = <<>>
        /\ tx[t].pc = "failed" => tx[t].trace = <<>> /\ tx[t].out = <<>>
        /\ t \in Routed =>
               /\ tx[t].stream = <<>>
               /\ tx[t].trace # <<>>
               /\ tx[t].built.body = Flatten(tx[t].chunks)
               /\ tx[t].req.body = Flatten(tx[t].chunks)
               /\ tx[t].built.headers = tx[t].headers
               /\ Len(tx[t].out) = 1
               /\ tx[t].ret.ok =>
                      /\ tx[t].out[1].status = tx[t].ret.res.status
                      /\ tx[t].out[1].headers = tx[t].ret.res.headers
                      /\ tx[t].out[1].body = tx[t].ret.res.body
               /\ ~tx[t].ret.ok =>
                      /\ tx[t].out[1].status = tx[t].ret.err.status
                      /\ tx[t].out[1].body =
                             <<123, 34, 109, 115, 103, 34, 58, 34>>
                                 \o IntoBytes(tx[t].ret.err.description) \o <<34, 125>>

C10_Step ==
    \A t \in 1..MaxTx :
        /\ tx'[t].trace # tx[t].trace => tx[t].pc = "recv" /\ tx[t].stream = <<>>
        /\ tx'[t].out # tx[t].out => tx[t].pc = "recv" /\ tx[t].stream = <<>>
        /\ tx[t].pc = "done" => tx'[t] = tx[t]

\* C10: the root Namespace routes a transaction, and the transaction gets its
\* response, only in a step taken when no chunk of its body is outstanding;
\* the Request routed holds the chunks of the body concatenated in arrival
\* order, and the headers of the transport request; a transaction whose body
\* completed has exactly one response, the converted Response or the
\* converted Error, and nothing changes it afterwards; a transaction still
\* receiving, or whose body failed, has none.
C10_RouteAfterBody ==
    /\ []C10_State
    /\ [][C10_Step]_vars

C10_Witness ==
    \E t \in Routed :
        /\ tx[t].chunks = <<<<123>>, <<125>>>>
        /\ tx[t].built.body = <<123, 125>>
        /\ tx[t].ret = Ok(ResponseNew)
        /\ tx[t].out = <<[status |-> 200, headers |-> NoHeaders, body |-> <<>>]>>

Failed == {t \in Routed : ~tx[t].ret.ok}

Message(on) == IF on = "req" THEN req ELSE resp
JsonTyped(val) == val \in {JsonUtf8, AppJson}

\* C12: to_json right after set_json or with_json of a value, on a Request or
\* a Response and whatever its headers and body were before, gives that very
\* value (for {"x":1} the body read is exactly {"x":1}); to_json of a message
\* whose Content-Type is not application/json gives the 400 error, whatever
\* the body is.
C12_JsonRoundTrip ==
    last.op = "to_json" =>
        LET m == Message(last.on)
        IN  /\ last.wrote.some =>
                   /\ last.result = JOk(last.wrote.v)
                   /\ last.wrote.v = JsonX1 => m.body = <<123, 34, 120, 34, 58, 49, 125>>
            /\ (ContentType \in DOMAIN m.headers /\ ~JsonTyped(m.headers[ContentType])) =>
                   /\ ~last.result.ok
                   /\ last.result.err.status = 400
                   /\ last.result.err.description = NotJsonDescription
                   /\ last.result.err.cause = <<>>

\* a Response is given {"x":1} and read back
C12_Witness ==
    /\ last.op = "to_json"
    /\ last.on = "res"
    /\ last.wrote = [some |-> TRUE, v |-> JsonX1]
    /\ resp.headers[ContentType] = JsonUtf8
    /\ last.result = JOk(JsonX1)

NamedStatus ==
    [internal |-> 500, unauthorized |-> 401, bad_request |-> 400,
     forbidden |-> 403, not_found |-> 404, method_not_allowed |-> 404]

MethodText ==
    <<"M", "e", "t", "h", "o", "d", " ", "i", "s", " ", "n", "o", "t", " ",
      "a", "l", "l", "o", "w", "e", "d", ".">>

\* whatever is done to the Error afterwards, it keeps the status and the
\* description its constructor gave it, up to the response it converts into
C13_Kept ==
    last.op \in DOMAIN NamedStatus =>
        /\ err.status = NamedStatus[last.op]
        /\ err.description =
               IF last.op = "method_not_allowed" THEN MethodText ELSE last.description
        /\ pc = "sent" => hres.status = NamedStatus[last.op]

\* the Error as it leaves its constructor
C13_Fresh ==
    (pc = "none" /\ pc' = "err" /\ last'.op \in DOMAIN NamedStatus) =>
        /\ err'.status = NamedStatus[last'.op]
        /\ err'.description =
               IF last'.op = "method_not_allowed" THEN MethodText ELSE last'.description
        /\ err'.headers = NoHeaders
        /\ err'.cause = <<>>

\* C13: internal gives a 500, unauthorized a 401, bad_request a 400,
\* forbidden a 403, not_found a 404, each with the description given and
\* with no header and no cause; method_not_allowed gives a 404, not a 405,
\* with the description "Method is not allowed."; status and description
\* stay so until the Error is converted.
C13_NamedConstructors ==
    /\ []C13_Kept
    /\ [][C13_Fresh]_vars

\* a method_not_allowed() was converted: the response is a 404
C13_Witness ==
    /\ pc = "sent"
    /\ last.op = "method_not_allowed"
    /\ err.description = MethodText
    /\ hres.status = 404

NsAThenB == NamespaceOf(<<SegA>>, <<LeafOk(<<SegB>>)>>)

\* C14: the apis entered while a request is routed lie on one path down the
\* tree, one for each depth, so no api is entered after an earlier api of the
\* same Namespace was; the result is the result of the first api entered
\* below the root, also when that is the not found of a Namespace and a later
\* api's name starts the segments as they were; and the segments the entered
\* apis matched are not in the request after the route.
C14_NoBacktracking ==
    last.op = "route" =>
        LET trace == last.trace
            n == Len(trace)
            m == Matching(tree, last.before.path_segs)
        IN  /\ \A k \in 1..n : Len(trace[k].at) = k - 1
            /\ \A k \in 2..n : SubSeq(trace[k].at, 1, k - 2) = trace[k - 1].at
            /\ n >= 2 => last.ret = trace[2].ret
            /\ m # {} =>
                   /\ n >= 2
                   /\ trace[2].at = <<Least(m)>>
                   /\ Len(req.path_segs) <=
                          Len(last.before.path_segs) - Len(tree[Least(m)].name)
            /\ req.path_segs = trace[n].segs
            /\ \A k \in 2..n : trace[k - 1].segs = trace[k].name \o trace[k].segs

\* the Namespace [a] is entered on a/a and finds nothing for the a left; the
\* leaf [a] bound after it is not tried, and one a stays consumed
C14_Witness ==
    /\ last.op = "route"
    /\ tree = <<NsAThenB, LeafOk(<<SegA>>)>>
    /\ last.before.path_segs = <<SegA, SegA>>
    /\ last.ret = ApiNotFound
    /\ Len(last.trace) = 2
    /\ req.path_segs = <<SegA>>

Receiving == {t \in 1..MaxTx : tx[t].pc = "recv"}
Holders(a) == {t \in Receiving : tx[t].ns = a}

C15_State ==
    /\ heap[ns].strong >= 1
    /\ heap[ns].apis = binds
    /\ \A a \in Addrs :
           heap[a].strong = Cardinality(Holders(a)) + (IF ns = a THEN 1 ELSE 0)
    /\ \A t \in Receiving :
           /\ tx[t].nbinds <= Len(binds)
           /\ heap[tx[t].ns].apis = SubSeq(binds, 1, tx[t].nbinds)
    /\ \A t \in Routed : tx[t].apis = SubSeq(binds, 1, tx[t].nbinds)

C15_Step ==
    /\ \A i \in 1..Len(binds) : Len(binds') >= i /\ binds'[i] = binds[i]
    /\ \A t \in 1..MaxTx :
           (tx[t].pc = "idle" /\ tx'[t].pc = "recv") => tx'[t].nbinds = Len(binds)
    /\ binds' = binds =>
           \A a \in Addrs :
               (heap[a].strong > 0 /\ heap'[a].strong > 0) => heap'[a].apis = heap[a].apis

\* C15: the root's list is the handlers bound, in the order bound (a bind
\* appends, and changes nothing before); a transaction still receiving holds
\* the list as it was at its route call, whatever was bound since, and a
\* routed one was dispatched against exactly that list; a route call takes
\* the list with everything bound so far; the allocations are counted right;
\* and a step that binds nothing changes the list of no Namespace.
C15_BindCopiesOnWrite ==
    /\ []C15_State
    /\ [][C15_Step]_vars

\* /books/content was asked for twice, before and after [books] was bound
\* second, and both bodies completed after the bind: the first finds nothing,
\* the second reaches the leaf
C15_Witness ==
    \E t, u \in Routed :
        /\ binds = <<NsDeep, NsBooks>>
        /\ tx[t].uri.path = PathBooksContent /\ tx[u].uri.path = PathBooksContent
        /\ tx[t].nbinds = 1 /\ tx[t].apis = <<NsDeep>>
        /\ tx[t].ret = ApiNotFound
        /\ tx[u].nbinds = 2 /\ tx[u].apis = binds
        /\ tx[u].ret = Ok(ResponseNew)

====
